---- MODULE Spec2Model ----
(***************************************************************************)
(* Model of cpptouml: the regex C++ parser's Model Store (cpp_parser.py)   *)
(* and the relationship analyzer (relationship.py).                        *)
(*                                                                         *)
(* Text is modelled as a sequence of tokens.  A token is either one        *)
(* punctuation character (a member of Punct) or a maximal run of word      *)
(* characters (an identifier or keyword), so that the regular expressions  *)
(* of the source, which only distinguish \w+ runs, whitespace and single   *)
(* punctuation characters, act on tokens exactly as they act on text.      *)
(* Join turns a token sequence back into the string it spells.             *)
(***************************************************************************)
EXTENDS Naturals, Sequences, FiniteSets, TLC

VARIABLES
    \* --- the resolver called on its own (SpecResolver)
    rpc,            \* "call" before the resolver ran, "return" or "raise" after
    type_str,       \* the raw type expression handed to _extract_type_name
    resolved,       \* what _extract_type_name returned for type_str
    is_ptr,         \* what _is_pointer_or_reference returned for type_str
    \* --- CppParser (the Model Store)
    classes,        \* self.classes: an insertion-ordered dict, as a sequence of ClassInfo
    parsed_files,   \* self.parsed_files
    ret,            \* what the last parse_file call returned
    dir_count,      \* what the last parse_directory call returned (its `count`)
    parse_exit,     \* history: how the last parser call ended
                    \*   "none", "skip" (line 360), "error" (line 367),
                    \*   "parsed" (line 412), "clear" (clear ran),
                    \*   "directory" (parse_directory returned)
    cleared,        \* history: parsed_files as it was when clear() last ran
    \* --- RelationshipAnalyzer.analyze_from_class / analyze_all
    pc,             \* "idle", "loop" (inside the while loop), "done" (returned)
    op,             \* which call is running or has returned
    start_class,
    max_depth,
    allowed_types,
    queue,
    visited,
    relationships,  \* the list before the removal of duplicates
    unique_rels,    \* the returned list
    class_name,     \* the entry last taken from the queue ...
    depth,          \* ... and its depth
    class_rels,     \* what _analyze_class returned for it
    \* --- Cpp2PlantUMLApp: the window, and the threads _parse_project starts
    app_parser,     \* self.parser: 0 for None, else the number of a parser instance
    app_generator,  \* self.generator: 0 for None, else the number of the parser
                    \*   instance the generator was made with
    parsers,        \* the CppParser instances made so far: [classes, parsed_files]
    threads,        \* the do_parse threads started so far: where each stands
                    \*   (pc), the instance its parse_directory call runs on
                    \*   (target), the next file of the listing (i), and count
    after_queue,    \* the callbacks handed to root.after and not yet run
    class_vars,     \* self.class_vars: the names with a checkbox (all ticked)
    ui_exit,        \* how the last Generate handler ended: "none", "rejected",
                    \*   "diagram" or "all"
    ui_rels         \* the (from, to, kind) of the relationships the last Generate
                    \*   handler drew

rvars == <<rpc, type_str, resolved, is_ptr>>
pvars == <<classes, parsed_files, ret, dir_count, parse_exit, cleared>>
avars == <<pc, op, start_class, max_depth, allowed_types, queue, visited,
           relationships, unique_rels, class_name, depth, class_rels>>
uvars == <<app_parser, app_generator, parsers, threads, after_queue, class_vars,
           ui_exit, ui_rels>>
vars  == <<rvars, pvars, avars, uvars>>

----------------------------------------------------------------------------
(* Strings *)

\* Python's None where a str is expected; no type name is the empty string.
None == ""

\* The value of `allowed_types` / `rel_type_filter` when no filter is given.
NoFilter == {"None"}

\* `x = e` followed by the statements F(x): e is evaluated once, and F is
\* handed its value.
With(e, F(_)) == CHOOSE r \in {F(x) : x \in {e}} : TRUE

Punct == {"*", "&", "<", ">", ",", ":", " "}

IsWord(t) == t \notin Punct

RECURSIVE Join(_)
Join(ts) == IF ts = <<>> THEN "" ELSE Head(ts) \o Join(Tail(ts))

\* str.strip(): leading and trailing whitespace removed
RECURSIVE LStrip(_)
LStrip(s) == IF s # <<>> /\ Head(s) = " " THEN LStrip(Tail(s)) ELSE s

RECURSIVE RStripChars(_, _)
RStripChars(s, chars) ==
    IF s # <<>> /\ s[Len(s)] \in chars
    THEN RStripChars(SubSeq(s, 1, Len(s) - 1), chars)
    ELSE s

Strip(s) == RStripChars(LStrip(s), {" "})

\* re.sub(r'\b(w1|w2|...)\b', '', s): every whole-word occurrence removed
RemoveWords(s, words) == SelectSeq(s, LAMBDA t : t \notin words)

\* ',' in s  /  s.split(',')[-1]
Contains(s, t) == \E i \in 1..Len(s) : s[i] = t

LastIndexOf(s, t) ==
    IF Contains(s, t) THEN CHOOSE i \in 1..Len(s) : s[i] = t /\ \A j \in (i+1)..Len(s) : s[j] # t
    ELSE 0

AfterLast(s, t) == SubSeq(s, LastIndexOf(s, t) + 1, Len(s))

\* '::' in s
HasScope(s) == \E i \in 1..(Len(s) - 1) : s[i] = ":" /\ s[i+1] = ":"

\* s.split('::')[-1]: separators are found left to right, without overlap
RECURSIVE SplitScopeLast(_)
SplitScopeLast(s) ==
    IF ~HasScope(s) THEN s
    ELSE LET i == CHOOSE k \in 1..(Len(s) - 1) :
                      /\ s[k] = ":" /\ s[k+1] = ":"
                      /\ \A j \in 1..(k-1) : ~(s[j] = ":" /\ s[j+1] = ":")
         IN  SplitScopeLast(SubSeq(s, i + 2, Len(s)))

----------------------------------------------------------------------------
(* Type-expression resolver: RelationshipAnalyzer._extract_type_name *)

\* re.match(r'(\w+)<(.+)>', s): a word at the very start, directly followed
\* by '<', then at least one character, then (greedy) the last '>' of s.
TemplateMatch(s) ==
    /\ Len(s) >= 4
    /\ IsWord(s[1])
    /\ s[2] = "<"
    /\ LastIndexOf(s, ">") >= 4

TemplateInner(s) == SubSeq(s, 3, LastIndexOf(s, ">") - 1)

RECURSIVE ExtractTypeName(_)
ExtractTypeName(ts) ==
    With(Strip(RemoveWords(ts, {"const", "volatile"})), LAMBDA s1 :
    With(Strip(RStripChars(s1, {"*", "&"})), LAMBDA s2 :
        IF TemplateMatch(s2)
        THEN With(TemplateInner(s2), LAMBDA inner :
                 IF Contains(inner, ",")
                 THEN ExtractTypeName(Strip(AfterLast(inner, ",")))
                 ELSE ExtractTypeName(inner))
        ELSE With(Strip(IF HasScope(s2) THEN SplitScopeLast(s2) ELSE s2), LAMBDA s4 :
                 IF s4 # <<>> THEN Join(s4) ELSE None)))

\* the number of frames of _extract_type_name that are live when the innermost
\* call runs: one for the call, one more for each template it recurses into
\* (line 90)
RECURSIVE ExtractTypeNameFrames(_)
ExtractTypeNameFrames(ts) ==
    With(Strip(RemoveWords(ts, {"const", "volatile"})), LAMBDA s1 :
    With(Strip(RStripChars(s1, {"*", "&"})), LAMBDA s2 :
        IF TemplateMatch(s2)
        THEN With(TemplateInner(s2), LAMBDA inner :
                 1 + (IF Contains(inner, ",")
                      THEN ExtractTypeNameFrames(Strip(AfterLast(inner, ",")))
                      ELSE ExtractTypeNameFrames(inner)))
        ELSE 1))

\* only '*' is looked for
IsPointerOnly(ts) ==
    LET s == Strip(ts)
    IN  s # <<>> /\ s[Len(s)] = "*"

\* RelationshipAnalyzer._is_pointer_or_reference
IsPointerOrReference(ts) ==
    LET s == Strip(ts)
    IN  s # <<>> /\ s[Len(s)] \in {"*", "&"}

----------------------------------------------------------------------------
(* Source text of a file, as parse_file scans it *)

\* A file's text is a sequence of lines.  Each line is recorded by the regular
\* expression of _parse_class_body / parse_file that recognises it:
\*   "decl"      class|struct Name [: inheritance] {      (opens a brace)
\*   "close"     }  or  };                                (closes a brace)
\*   "access"    public: | private: | protected:          (name is the specifier)
\*   "method"    return-type name(parameters);
\*   "ctor"      Name(parameters);  or  ~Name();
\*   "ctor_open" Name(parameters) {                       (opens a brace)
\*   "member"    type name;
\*   "other"     a line no expression matches
\* text holds what the expression captures as the inheritance, the return type
\* or the member type (a member's leading static/const/mutable is not captured).
Line(k, kw, name, text, params) ==
    [k |-> k, keyword |-> kw, name |-> name, text |-> text, parameters |-> params]

Decl(kw, name, inh)        == Line("decl", kw, name, inh, <<>>)
Close                      == Line("close", "", "", <<>>, <<>>)
Access(a)                  == Line("access", "", a, <<>>, <<>>)
Method(name, rt, params)   == Line("method", "", name, rt, params)
Ctor(name, params)         == Line("ctor", "", name, <<>>, params)
CtorOpen(name, params)     == Line("ctor_open", "", name, <<>>, params)
Member(name, type)         == Line("member", "", name, type, <<>>)
Other                      == Line("other", "", "", <<>>, <<>>)

\* the braces a line contributes to _find_matching_brace's counter
BraceDelta(line) ==
    CASE line.k \in {"decl", "ctor_open"} -> 1
      [] line.k = "close"                 -> 0 - 1
      [] OTHER                            -> 0

\* CppParser._find_matching_brace: the index of the line holding the closing
\* brace that matches the one opened on line `start`; 0 stands for -1.
RECURSIVE FindMatchingBraceFrom(_, _, _)
FindMatchingBraceFrom(content, i, count) ==
    IF i > Len(content) THEN 0
    ELSE LET c == count + BraceDelta(content[i])
         IN  IF content[i].k = "close" /\ c = 0 THEN i
             ELSE FindMatchingBraceFrom(content, i + 1, c)

\* the first closing brace after `start` is taken, whatever was opened since
FirstCloseAfter(content, start) ==
    IF \E j \in (start + 1)..Len(content) : content[j].k = "close"
    THEN CHOOSE j \in (start + 1)..Len(content) :
             /\ content[j].k = "close"
             /\ \A k \in (start + 1)..(j - 1) : content[k].k # "close"
    ELSE 0

FindMatchingBrace(content, start) == FindMatchingBraceFrom(content, start, 0)

\* s.split(','): the segments between the commas
RECURSIVE SplitComma(_)
SplitComma(s) ==
    IF ~Contains(s, ",") THEN <<s>>
    ELSE LET i == CHOOSE k \in 1..Len(s) : s[k] = "," /\ \A j \in 1..(k-1) : s[j] # ","
         IN  <<SubSeq(s, 1, i - 1)>> \o SplitComma(SubSeq(s, i + 1, Len(s)))

\* CppParser._parse_inheritance
ParseInheritance(inheritance_str) ==
    IF inheritance_str = <<>> THEN <<>>
    ELSE LET parts == SplitComma(inheritance_str)
             Clean(part) == Strip(RemoveWords(part, {"public", "private", "protected", "virtual"}))
             cleaned == [i \in 1..Len(parts) |-> Clean(parts[i])]
         IN  SelectSeq(cleaned, LAMBDA part : part # <<>>)

MemberInfo(name, type_name, access) ==
    [name |-> name, type_name |-> type_name, access |-> access]

MethodInfo(name, return_type, parameters, access) ==
    [name |-> name, return_type |-> return_type, parameters |-> parameters, access |-> access]

\* CppParser._parse_class_body: the loop over the body's lines, carrying
\* current_access, members and methods.
RECURSIVE ParseClassBodyFrom(_, _, _, _, _)
ParseClassBodyFrom(lines, i, current_access, members, methods) ==
    IF i > Len(lines) THEN [members |-> members, methods |-> methods]
    ELSE LET line == lines[i]
         IN  CASE line.k = "access" ->
                    ParseClassBodyFrom(lines, i + 1, line.name, members, methods)
               [] line.k = "method" ->
                    ParseClassBodyFrom(lines, i + 1, current_access, members,
                        Append(methods, MethodInfo(line.name, line.text, line.parameters, current_access)))
               [] line.k \in {"ctor", "ctor_open"} ->
                    ParseClassBodyFrom(lines, i + 1, current_access, members,
                        Append(methods, MethodInfo(line.name, <<>>, line.parameters, current_access)))
               [] line.k = "member" ->
                    ParseClassBodyFrom(lines, i + 1, current_access,
                        Append(members, MemberInfo(line.name, line.text, current_access)), methods)
               [] OTHER ->
                    ParseClassBodyFrom(lines, i + 1, current_access, members, methods)

\* the default access is private for a struct too
ParseClassBodyAsClass(body, is_struct) ==
    ParseClassBodyFrom(body, 1, "private", <<>>, <<>>)

ParseClassBody(body, is_struct) ==
    ParseClassBodyFrom(body, 1, IF is_struct THEN "public" ELSE "private", <<>>, <<>>)

ClassInfo(name, members, methods, base_classes, file_path, is_struct) ==
    [name |-> name, members |-> members, methods |-> methods,
     base_classes |-> base_classes, file_path |-> file_path, is_struct |-> is_struct]

----------------------------------------------------------------------------
(* The Model Store: CppParser.classes, an insertion-ordered dict *)

Keys(d) == {d[i].name : i \in 1..Len(d)}

KeyList(d) == [i \in 1..Len(d) |-> d[i].name]

\* d[name], for name in d
Item(d, name) == d[CHOOSE i \in 1..Len(d) : d[i].name = name]

\* d.setdefault(name, info): an existing entry is kept
SetDefault(d, info) ==
    IF info.name \in Keys(d) THEN d ELSE Append(d, info)

\* d[name] = info: an existing key keeps its place, a new key goes last
SetItem(d, info) ==
    IF info.name \in Keys(d)
    THEN [i \in 1..Len(d) |-> IF d[i].name = info.name THEN info ELSE d[i]]
    ELSE Append(d, info)

\* CppParser.get_class: d.get(name); <<>> stands for None
GetClass(d, name) == IF name \in Keys(d) THEN <<Item(d, name)>> ELSE <<>>

\* the keyword is not looked at
BuildClassInfoAsClass(content, i, end_brace, file_path) ==
    LET body   == SubSeq(content, i + 1, end_brace - 1)
        parsed == ParseClassBody(body, FALSE)
    IN  ClassInfo(content[i].name, parsed.members, parsed.methods,
                  ParseInheritance(content[i].text), file_path, FALSE)

\* What one `class|struct Name ... {` match of parse_file's loop builds.
BuildClassInfo(content, i, end_brace, file_path) ==
    LET is_struct == content[i].keyword = "struct"
        body      == SubSeq(content, i + 1, end_brace - 1)
        parsed    == ParseClassBody(body, is_struct)
    IN  ClassInfo(content[i].name, parsed.members, parsed.methods,
                  ParseInheritance(content[i].text), file_path, is_struct)

\* parse_file's loop over re.finditer(pattern, content), from line i on
RECURSIVE ScanDeclarations(_, _, _, _)
ScanDeclarations(d, content, i, file_path) ==
    IF i > Len(content) THEN d
    ELSE IF content[i].k # "decl" THEN ScanDeclarations(d, content, i + 1, file_path)
    ELSE LET end_brace == FindMatchingBrace(content, i)
         IN  IF end_brace = 0
             THEN ScanDeclarations(d, content, i + 1, file_path)
             ELSE ScanDeclarations(SetItem(d, BuildClassInfo(content, i, end_brace, file_path)),
                                   content, i + 1, file_path)

----------------------------------------------------------------------------
(* Relationship classifier: RelationshipAnalyzer._analyze_class *)

INHERITANCE == "inheritance"
COMPOSITION == "composition"
AGGREGATION == "aggregation"
DEPENDENCY  == "dependency"

RelationType == {INHERITANCE, COMPOSITION, AGGREGATION, DEPENDENCY}

Relationship(from_class, to_class, rel_type) ==
    [from_class |-> from_class, to_class |-> to_class, rel_type |-> rel_type, label |-> ""]

\* RelationshipAnalyzer._is_known_class
IsKnownClass(d, type_name) == type_name \in Keys(d)

\* from_class and to_class exchanged
RECURSIVE InheritanceRelsReversed(_, _, _)
InheritanceRelsReversed(class_info, i, rels) ==
    IF i > Len(class_info.base_classes) THEN rels
    ELSE With(ExtractTypeName(class_info.base_classes[i]), LAMBDA base_name :
             InheritanceRelsReversed(class_info, i + 1,
                 IF base_name # None
                 THEN Append(rels, Relationship(class_info.name, base_name, INHERITANCE))
                 ELSE rels))

\* lines 154-162: one inheritance edge per base expression that resolves
RECURSIVE InheritanceRels(_, _, _)
InheritanceRels(class_info, i, rels) ==
    IF i > Len(class_info.base_classes) THEN rels
    ELSE With(ExtractTypeName(class_info.base_classes[i]), LAMBDA base_name :
             InheritanceRels(class_info, i + 1,
                 IF base_name # None
                 THEN Append(rels, Relationship(base_name, class_info.name, INHERITANCE))
                 ELSE rels))

\* lines 164-179: the loop over the members, carrying seen_members
RECURSIVE MemberRels(_, _, _, _, _)
MemberRels(d, class_info, i, seen_members, rels) ==
    IF i > Len(class_info.members) THEN [rels |-> rels, seen_members |-> seen_members]
    ELSE With(class_info.members[i], LAMBDA member :
         With(ExtractTypeName(member.type_name), LAMBDA type_name :
             IF /\ type_name # None
                /\ type_name # class_info.name
                /\ type_name \notin seen_members
                /\ IsKnownClass(d, type_name)
             THEN MemberRels(d, class_info, i + 1, seen_members \cup {type_name},
                      Append(rels, Relationship(class_info.name, type_name,
                          IF IsPointerOrReference(member.type_name)
                          THEN AGGREGATION ELSE COMPOSITION)))
             ELSE MemberRels(d, class_info, i + 1, seen_members, rels)))

\* a name in seen_members enters seen_deps all the same
SeenDepsWithMembers(d, class_info, seen_members) ==
    LET methods == class_info.methods
        used == {ExtractTypeName(methods[i].return_type) : i \in 1..Len(methods)}
                \cup UNION {{ExtractTypeName(methods[i].parameters[j][2]) :
                                j \in 1..Len(methods[i].parameters)} : i \in 1..Len(methods)}
    IN  {t \in used : /\ t # None
                      /\ t # class_info.name
                      /\ IsKnownClass(d, t)}

\* lines 181-196: seen_deps after the loop over the methods.  A name enters the
\* set when it is some method's resolved return type or parameter type, is not
\* the class itself, is a known class and is not in seen_members; the tests on
\* seen_deps itself only avoid adding a name twice.
SeenDeps(d, class_info, seen_members) ==
    LET methods == class_info.methods
        used == {ExtractTypeName(methods[i].return_type) : i \in 1..Len(methods)}
                \cup UNION {{ExtractTypeName(methods[i].parameters[j][2]) :
                                j \in 1..Len(methods[i].parameters)} : i \in 1..Len(methods)}
    IN  {t \in used : /\ t # None
                      /\ t # class_info.name
                      /\ IsKnownClass(d, t)
                      /\ t \notin seen_members}

\* The orders in which `for x in S` can run through a Python set of strings
\* (string hashes are randomised per process).
Orders(S) ==
    {s \in [1..Cardinality(S) -> S] : \A i, j \in 1..Cardinality(S) : i # j => s[i] # s[j]}

\* _analyze_class, given the order in which seen_deps is iterated (lines 198-203)
AnalyzeClass(d, class_info, dep_order) ==
    With(InheritanceRels(class_info, 1, <<>>), LAMBDA inh :
    With(MemberRels(d, class_info, 1, {}, inh), LAMBDA mem :
        mem.rels \o [i \in 1..Len(dep_order) |->
                        Relationship(class_info.name, dep_order[i], DEPENDENCY)]))

\* the iteration orders _analyze_class may use for class_info
DepOrders(d, class_info) ==
    Orders(SeenDeps(d, class_info, MemberRels(d, class_info, 1, {}, <<>>).seen_members))

\* _find_child_classes: the raw base expression has to equal the name
FindChildClasses(d, parent_class) ==
    SelectSeq(KeyList(d), LAMBDA n :
        \E i \in 1..Len(Item(d, n).base_classes) : Join(Item(d, n).base_classes[i]) = parent_class)

\* _find_classes_using, for one class of the store: whether it is appended
UsesClass(class_info, target_class, allowed) ==
    LET by_member ==
            /\ allowed = NoFilter \/ allowed \cap {COMPOSITION, AGGREGATION} # {}
            /\ \E i \in 1..Len(class_info.members) :
                   ExtractTypeName(class_info.members[i].type_name) = target_class
        by_param ==
            /\ allowed = NoFilter \/ DEPENDENCY \in allowed
            /\ \E i \in 1..Len(class_info.methods) :
                   \E j \in 1..Len(class_info.methods[i].parameters) :
                       ExtractTypeName(class_info.methods[i].parameters[j][2]) = target_class
    IN  class_info.name # target_class /\ (by_member \/ by_param)

FindClassesUsing(d, target_class, allowed) ==
    SelectSeq(KeyList(d), LAMBDA n : UsesClass(Item(d, n), target_class, allowed))

\* lines 356-365 and 385-392: first occurrences of each (from, to, kind)
Key(rel) == <<rel.from_class, rel.to_class, rel.rel_type>>

RECURSIVE RemoveDuplicatesFrom(_, _, _, _)
RemoveDuplicatesFrom(rels, i, seen, unique) ==
    IF i > Len(rels) THEN unique
    ELSE IF Key(rels[i]) \notin seen
         THEN RemoveDuplicatesFrom(rels, i + 1, seen \cup {Key(rels[i])}, Append(unique, rels[i]))
         ELSE RemoveDuplicatesFrom(rels, i + 1, seen, unique)

\* the list is returned as collected
RemoveDuplicatesSkipped(rels) == rels

RemoveDuplicates(rels) == RemoveDuplicatesFrom(rels, 1, {}, <<>>)

----------------------------------------------------------------------------
(* Bounds and inputs *)

MaxDepth     == 2      \* max_depth ranges over 0..MaxDepth
MaxFilterLen == 1      \* rel_type_filter lists hold at most this many distinct words

MaxParses == 2         \* Parse Project is pressed at most this many times

\* The frames the interpreter leaves to the recursion of _extract_type_name
\* before it raises RecursionError (sys.getrecursionlimit() is 1000 by default;
\* the function sets no limit of its own), scaled down.
RecursionLimit == 3
MaxNesting == RecursionLimit + 1     \* the deepest template nesting of the inputs

ClassNames == {"A", "B", "C"}
StartNames == ClassNames \cup {"U"}          \* "U" is never declared

FilterWords == RelationType \cup {"bogus"}
Filters == {NoFilter} \cup {f \in SUBSET FilterWords : Cardinality(f) <= MaxFilterLen}

\* The paths handed to parse_file and what Path(file_path).resolve() makes of them
PathArgs == {"a.h", "./a.h", "b.h"}
Resolve(file_path) == IF file_path = "b.h" THEN "/src/b.h" ELSE "/src/a.h"

\* struct A { };
\* class B : public A, public ns::A {
\*     A a;
\*     A* pa;
\*     C* pc;
\*     void f(C c);
\* };
Text1 == <<
    Decl("struct", "A", <<>>),
    Close,
    Decl("class", "B", <<"public", " ", "A", ",", " ", "public", " ", "ns", ":", ":", "A", " ">>),
    Member("a", <<"A">>),
    Member("pa", <<"A", "*">>),
    Member("pc", <<"C", "*">>),
    Method("f", <<"void">>, << <<"c", <<"C">> >> >>),
    Close >>

\* class C : public U, public ns::A {
\* public:
\*     C(A* a);
\*     vector<B> g(const A& x);
\* private:
\*     C* self;
\* };
Text2 == <<
    Decl("class", "C", <<"public", " ", "U", ",", " ", "public", " ", "ns", ":", ":", "A", " ">>),
    Access("public"),
    Ctor("C", << <<"a", <<"A", "*">> >> >>),
    Method("g", <<"vector", "<", "B", ">">>, << <<"x", <<"const", " ", "A", "&">> >> >>),
    Access("private"),
    Member("self", <<"C", "*">>),
    Close >>

\* class A { B* b; int n; };
\* struct A : public C {
\*     B b;
\*     C* h(C* c);
\* };
\* class B {
\*     int x;
Text3 == <<
    Decl("class", "A", <<>>),
    Member("b", <<"B", "*">>),
    Member("n", <<"int">>),
    Close,
    Decl("struct", "A", <<"public", " ", "C", " ">>),
    Member("b", <<"B">>),
    Method("h", <<"C", "*">>, << <<"c", <<"C", "*">> >> >>),
    Close,
    Decl("class", "B", <<>>),
    Member("x", <<"int">>) >>

\* class B : const {
\*     const std::vector<A>& as;
\*     C& rc;
\* };
Text4 == <<
    Decl("class", "B", <<"const", " ">>),
    Member("as", <<"std", ":", ":", "vector", "<", "A", ">", "&">>),
    Member("rc", <<"C", "&">>),
    Close >>

FileContents == {Text1, Text2, Text3, Text4}

\* struct D {
\*     int v;
\* };
Text5 == <<
    Decl("struct", "D", <<>>),
    Member("v", <<"int">>),
    Close >>

\* class E {
\*     int x;
\* struct D {
\*     int w;
\* protected:
\*     int y;
\* };
Text6 == <<
    Decl("class", "E", <<>>),
    Member("x", <<"int">>),
    Decl("struct", "D", <<>>),
    Member("w", <<"int">>),
    Access("protected"),
    Member("y", <<"int">>),
    Close >>

\* class F : public Base<A, B>, public Other {
\* public:
\*     explicit F(int n);
\*     virtual ~F();
\*     F(const F& o);
\*     int size();
\* };
\* The method expression matches `explicit F(int n);` and `virtual ~F();`, with
\* `explicit` and `virtual` as the return type: a leading `virtual ` is optional
\* in it, and without it the word is what the return-type group matches.
Text7 == <<
    Decl("class", "F", <<"public", " ", "Base", "<", "A", ",", " ", "B", ">", ",", " ",
                         "public", " ", "Other", " ">>),
    Access("public"),
    Method("F", <<"explicit">>, << <<"n", <<"int">> >> >>),
    Method("~F", <<"virtual">>, <<>>),
    Ctor("F", << <<"o", <<"const", " ", "F", "&">> >> >>),
    Method("size", <<"int">>, <<>>),
    Close >>

\* class H {
\* public:
\*     H(int n) {
\*         int tmp;
\*     }
\*     struct In {
\*         int w;
\*     private:
\*         int z;
\*     };
\*     int after;
\* };
Text8 == <<
    Decl("class", "H", <<>>),
    Access("public"),
    CtorOpen("H", << <<"n", <<"int">> >> >>),
    Member("tmp", <<"int">>),
    Close,
    Decl("struct", "In", <<>>),
    Member("w", <<"int">>),
    Access("private"),
    Member("z", <<"int">>),
    Close,
    Member("after", <<"int">>),
    Close >>

\* the texts of the parser's own specification (SpecParser)
ParserContents == FileContents \cup {Text5, Text6, Text7, Text8}

\* the texts of the files of a directory
DirContents == {Text1, Text5}

\* what open() and read() yield for a file: an exception, or its text
Reads == {[ok |-> FALSE, content |-> <<>>]} \cup {[ok |-> TRUE, content |-> c] : c \in DirContents}

\* the files of the directories handed to parse_directory, and the listings
\* rglob can yield for them
DirPaths == {"a.h", "b.h"}
DirListings == UNION {Orders(S) : S \in SUBSET DirPaths}

----------------------------------------------------------------------------
(* CppParser: parse_file and clear *)

\* the path is looked up as given, before it is resolved
AlreadyParsedAsGiven(file_path) == file_path \in parsed_files

\* lines 358-359: the resolved path is in parsed_files
AlreadyParsed(file_path) == Resolve(file_path) \in parsed_files

\* lines 358-360: the path was parsed before
ParseFileSkip(file_path) ==
    /\ AlreadyParsed(file_path)
    /\ ret' = TRUE
    /\ parse_exit' = "skip"
    /\ UNCHANGED <<classes, parsed_files>>

\* lines 362-367: open() or read() raised
ParseFileError(file_path) ==
    /\ ~AlreadyParsed(file_path)
    /\ ret' = FALSE
    /\ parse_exit' = "error"
    /\ UNCHANGED <<classes, parsed_files>>

\* lines 369-412: the text was read
ParseFileRead(file_path, content) ==
    /\ ~AlreadyParsed(file_path)
    /\ classes' = ScanDeclarations(classes, content, 1, Resolve(file_path))
    /\ parsed_files' = parsed_files \cup {Resolve(file_path)}
    /\ ret' = TRUE
    /\ parse_exit' = "parsed"

\* CppParser.parse_file; the file's text is whatever the disk holds at the call
ParseFile(file_path) ==
    /\ pc = "idle"
    /\ \/ ParseFileSkip(file_path)
       \/ ParseFileError(file_path)
       \/ \E content \in FileContents : ParseFileRead(file_path, content)
    /\ UNCHANGED <<cleared, dir_count, avars, rvars, uvars>>

\* parse_file as parse_directory calls it: what it leaves and returns, from the
\* store d, the processed paths and what open() and read() yield for the file
ParseFileResult(d, parsed, file_path, read) ==
    IF Resolve(file_path) \in parsed
    THEN [classes |-> d, parsed_files |-> parsed, ret |-> TRUE]
    ELSE IF ~read.ok
    THEN [classes |-> d, parsed_files |-> parsed, ret |-> FALSE]
    ELSE [classes |-> ScanDeclarations(d, read.content, 1, Resolve(file_path)),
          parsed_files |-> parsed \cup {Resolve(file_path)},
          ret |-> TRUE]

\* every file is counted
CountAlways(n, ok) == n + 1

\* lines 435-436: `if self.parse_file(...): count += 1`
CountIf(n, ok) == IF ok THEN n + 1 ELSE n

\* lines 433-436: the loop over the files rglob yields, from the i-th on
RECURSIVE ParseDirectoryFrom(_, _, _, _, _, _)
ParseDirectoryFrom(files, i, disk, d, parsed, n) ==
    IF i > Len(files) THEN [classes |-> d, parsed_files |-> parsed, count |-> n]
    ELSE With(ParseFileResult(d, parsed, files[i], disk[files[i]]), LAMBDA r :
             ParseDirectoryFrom(files, i + 1, disk, r.classes, r.parsed_files,
                                CountIf(n, r.ret)))

\* CppParser.parse_directory: `files` is the directory's listing in the order
\* rglob yields it, `disk` what reading each file yields during the call
ParseDirectory(files, disk) ==
    /\ pc = "idle"
    /\ \E r \in {ParseDirectoryFrom(files, 1, disk, classes, parsed_files, 0)} :
          /\ classes' = r.classes
          /\ parsed_files' = r.parsed_files
          /\ dir_count' = r.count
    /\ parse_exit' = "directory"
    /\ UNCHANGED <<ret, cleared, avars, rvars, uvars>>

\* only the classes are dropped
ClearClassesOnly ==
    /\ pc = "idle"
    /\ classes' = <<>>
    /\ cleared' = parsed_files
    /\ parse_exit' = "clear"
    /\ UNCHANGED <<parsed_files, ret, dir_count, avars, rvars, uvars>>

\* CppParser.clear
Clear ==
    /\ pc = "idle"
    /\ classes' = <<>>
    /\ parsed_files' = {}
    /\ cleared' = parsed_files
    /\ parse_exit' = "clear"
    /\ UNCHANGED <<ret, dir_count, avars, rvars, uvars>>

----------------------------------------------------------------------------
(* RelationshipAnalyzer: analyze_from_class and analyze_all *)

\* lines 297-306: allowed_types from rel_type_filter
AllowedTypes(rel_type_filter) ==
    IF rel_type_filter = NoFilter \/ rel_type_filter = {}
    THEN NoFilter
    ELSE rel_type_filter \cap RelationType

\* line 328: `allowed_types and rel.rel_type not in allowed_types` is false
Survives(allowed, rel) ==
    ~(allowed # NoFilter /\ allowed # {} /\ rel.rel_type \notin allowed)

\* lines 335-338: both ends of the surviving edges, unless visited
RECURSIVE EdgeEnqueues(_, _, _, _)
EdgeEnqueues(rels, i, seen, d) ==
    IF i > Len(rels) THEN <<>>
    ELSE (IF rels[i].to_class \notin seen THEN << <<rels[i].to_class, d + 1>> >> ELSE <<>>)
         \o (IF rels[i].from_class \notin seen THEN << <<rels[i].from_class, d + 1>> >> ELSE <<>>)
         \o EdgeEnqueues(rels, i + 1, seen, d)

\* the names of a list, unless visited, at the depth of the class they were found from
NameEnqueuesSameDepth(names, seen, d) ==
    LET fresh == SelectSeq(names, LAMBDA n : n \notin seen)
    IN  [i \in 1..Len(fresh) |-> <<fresh[i], d>>]

\* lines 344-346 and 352-354: the names of a list, unless visited
NameEnqueues(names, seen, d) ==
    LET fresh == SelectSeq(names, LAMBDA n : n \notin seen)
    IN  [i \in 1..Len(fresh) |-> <<fresh[i], d + 1>>]

\* queue[0] is read and left on the queue
DequeuePeek(q) == q

\* line 313: queue.popleft() leaves the rest of the queue
Dequeue(q) == Tail(q)

\* depth <= max_depth
WithinDepthInclusive(d, md) == d <= md

\* lines 334 and 342: depth < max_depth
WithinDepth(d, md) == d < md

\* the start is taken to be in the store
StartAssumedInStore(d, start) == TRUE

\* line 294: start_class in self.parser.classes
StartInStore(d, start) == start \in Keys(d)

\* line 294-310: the call
AnalyzeFromClassCall(start, md, rel_type_filter) ==
    /\ pc = "idle"
    /\ op' = "analyze_from_class"
    /\ start_class' = start
    /\ max_depth' = md
    /\ IF ~StartInStore(classes, start)
       THEN /\ pc' = "done"
            /\ allowed_types' = NoFilter
            /\ queue' = <<>>
       ELSE /\ pc' = "loop"
            /\ allowed_types' = AllowedTypes(rel_type_filter)
            /\ queue' = << <<start, 0>> >>
    /\ visited' = {}
    /\ relationships' = <<>>
    /\ unique_rels' = <<>>
    /\ UNCHANGED <<class_name, depth, class_rels, pvars, rvars, uvars>>

\* lines 312-354: one pass through the body of `while queue`
LoopStep ==
    /\ pc = "loop"
    /\ queue # <<>>
    /\ class_name' = queue[1][1]
    /\ depth' = queue[1][2]
    /\ IF queue[1][1] \in visited
       THEN /\ queue' = Dequeue(queue)
            /\ UNCHANGED <<visited, relationships, class_rels>>
       ELSE /\ visited' = visited \cup {queue[1][1]}
            /\ IF queue[1][1] \notin Keys(classes)
               THEN /\ queue' = Dequeue(queue)
                    /\ UNCHANGED <<relationships, class_rels>>
               ELSE \E class_info \in {Item(classes, queue[1][1])} :
                    \E dep_order \in DepOrders(classes, class_info) :
                    \E rels \in {AnalyzeClass(classes, class_info, dep_order)} :
                    \E kept \in {SelectSeq(rels, LAMBDA r : Survives(allowed_types, r))} :
                      LET seen  == visited \cup {queue[1][1]}
                          within == WithinDepth(queue[1][2], max_depth)
                          children ==
                              IF within /\ (allowed_types = NoFilter \/ INHERITANCE \in allowed_types)
                              THEN NameEnqueues(FindChildClasses(classes, queue[1][1]),
                                                seen, queue[1][2])
                              ELSE <<>>
                          users ==
                              IF within /\ (allowed_types = NoFilter
                                            \/ allowed_types \cap {COMPOSITION, AGGREGATION, DEPENDENCY} # {})
                              THEN NameEnqueues(FindClassesUsing(classes, queue[1][1], allowed_types),
                                                seen, queue[1][2])
                              ELSE <<>>
                      IN  /\ class_rels' = rels
                          /\ relationships' = relationships \o kept
                          /\ queue' = Dequeue(queue)
                                      \o (IF within THEN EdgeEnqueues(kept, 1, seen, queue[1][2]) ELSE <<>>)
                                      \o children \o users
    /\ UNCHANGED <<pc, op, start_class, max_depth, allowed_types, unique_rels, pvars, rvars, uvars>>

\* lines 356-365: the queue is empty; duplicates are removed and the call returns
LoopExit ==
    /\ pc = "loop"
    /\ queue = <<>>
    /\ unique_rels' = RemoveDuplicates(relationships)
    /\ pc' = "done"
    /\ UNCHANGED <<op, start_class, max_depth, allowed_types, queue, visited,
                   relationships, class_name, depth, class_rels, pvars, rvars, uvars>>

\* `all_relationships = rels` in place of extend: the last class's edges only
AllRelationshipsAssigned(d, i, dep_orders) ==
    IF Len(d) = 0 THEN <<>> ELSE AnalyzeClass(d, d[Len(d)], dep_orders[Len(d)])

\* lines 380-383: all_relationships, given each class's iteration order of seen_deps
RECURSIVE AllRelationshipsFrom(_, _, _)
AllRelationshipsFrom(d, i, dep_orders) ==
    IF i > Len(d) THEN <<>>
    ELSE AnalyzeClass(d, d[i], dep_orders[i]) \o AllRelationshipsFrom(d, i + 1, dep_orders)

\* analyze_all
AnalyzeAll ==
    /\ pc = "idle"
    /\ op' = "analyze_all"
    /\ pc' = "done"
    /\ visited' = Keys(classes)
    /\ \E dep_orders \in [1..Len(classes) -> UNION {DepOrders(classes, classes[i]) : i \in 1..Len(classes)}] :
          /\ \A i \in 1..Len(classes) : dep_orders[i] \in DepOrders(classes, classes[i])
          /\ relationships' = AllRelationshipsFrom(classes, 1, dep_orders)
    /\ unique_rels' = RemoveDuplicates(relationships')
    /\ UNCHANGED <<start_class, max_depth, allowed_types, queue, class_name, depth,
                   class_rels, pvars, rvars, uvars>>

\* the caller has taken the result; the analyzer is dropped
Return ==
    /\ pc = "done"
    /\ pc' = "idle"
    /\ op' = "none"
    /\ start_class' = ""
    /\ max_depth' = 0
    /\ allowed_types' = NoFilter
    /\ queue' = <<>>
    /\ visited' = {}
    /\ relationships' = <<>>
    /\ unique_rels' = <<>>
    /\ class_name' = ""
    /\ depth' = 0
    /\ class_rels' = <<>>
    /\ UNCHANGED <<pvars, rvars, uvars>>

----------------------------------------------------------------------------
(* The session: a parser, and analyzers made on its store *)

\* Cpp2PlantUMLApp.__init__ (lines 68-69): no parser, no generator
AppInit ==
    /\ app_parser = 0
    /\ app_generator = 0
    /\ parsers = <<>>
    /\ threads = <<>>
    /\ after_queue = <<>>
    /\ class_vars = {}
    /\ ui_exit = "none"
    /\ ui_rels = {}

Init ==
    /\ AppInit
    /\ rpc = "off" /\ type_str = <<>> /\ resolved = None /\ is_ptr = FALSE
    /\ classes = <<>>
    /\ parsed_files = {}
    /\ ret = TRUE
    /\ dir_count = 0
    /\ parse_exit = "none"
    /\ cleared = {}
    /\ pc = "idle"
    /\ op = "none"
    /\ start_class = ""
    /\ max_depth = 0
    /\ allowed_types = NoFilter
    /\ queue = <<>>
    /\ visited = {}
    /\ relationships = <<>>
    /\ unique_rels = <<>>
    /\ class_name = ""
    /\ depth = 0
    /\ class_rels = <<>>

Next ==
    \/ \E file_path \in PathArgs : ParseFile(file_path)
    \/ Clear
    \/ \E start \in StartNames, md \in 0..MaxDepth, f \in Filters : AnalyzeFromClassCall(start, md, f)
    \/ LoopStep
    \/ LoopExit
    \/ AnalyzeAll
    \/ Return

Spec == Init /\ [][Next]_vars

\* The interpreter keeps running a loop it is in.
SpecLive == Spec /\ WF_vars(LoopStep) /\ WF_vars(LoopExit)

\* The parser on its own: parse_file, parse_directory and clear, on the texts
\* of ParserContents
ParserInit == Init

ParseFileOf(file_path) ==
    /\ pc = "idle"
    /\ \/ ParseFileSkip(file_path)
       \/ ParseFileError(file_path)
       \/ \E content \in ParserContents : ParseFileRead(file_path, content)
    /\ UNCHANGED <<cleared, dir_count, avars, rvars, uvars>>

ParserNext ==
    \/ \E file_path \in PathArgs : ParseFileOf(file_path)
    \/ \E files \in DirListings, disk \in [DirPaths -> Reads] : ParseDirectory(files, disk)
    \/ Clear

SpecParser == ParserInit /\ [][ParserNext]_vars

----------------------------------------------------------------------------
(* Cpp2PlantUMLApp: the handlers of the window and the do_parse threads *)

\* the project folder: what rglob lists in it and what the files hold
ProjectFiles == <<"a.h", "b.h">>
ProjectDisk  == [f \in {"a.h", "b.h"} |->
                    [ok |-> TRUE, content |-> IF f = "a.h" THEN Text1 ELSE Text2]]

\* CppParser(): a new instance with nothing in it
NewParser == [classes |-> <<>>, parsed_files |-> {}]

\* _parse_project, lines 376-408 on the main thread: the folder is a directory,
\* and a do_parse thread is started
ParseProject ==
    /\ Len(threads) < MaxParses
    /\ threads' = Append(threads, [pc |-> "make", target |-> 0, i |-> 1, count |-> 0])
    /\ UNCHANGED <<app_parser, app_generator, parsers, after_queue, class_vars,
                   ui_exit, ui_rels, rvars, pvars, avars>>

\* do_parse, line 396: `self.parser = CppParser()`
DoParseMake(t) ==
    /\ threads[t].pc = "make"
    /\ parsers' = Append(parsers, NewParser)
    /\ app_parser' = Len(parsers) + 1
    /\ threads' = [threads EXCEPT ![t].pc = "call"]
    /\ UNCHANGED <<app_generator, after_queue, class_vars, ui_exit, ui_rels,
                   rvars, pvars, avars>>

\* do_parse, line 399: `self.parser` is read again, and parse_directory is
\* called on what it holds now
DoParseCall(t) ==
    /\ threads[t].pc = "call"
    /\ threads' = [threads EXCEPT ![t].pc = "files", ![t].target = app_parser]
    /\ UNCHANGED <<app_parser, app_generator, parsers, after_queue, class_vars,
                   ui_exit, ui_rels, rvars, pvars, avars>>

\* parse_directory, lines 433-436: one pass of the loop, parse_file on the next
\* file of the listing
DoParseFile(t) ==
    /\ threads[t].pc = "files"
    /\ threads[t].i <= Len(ProjectFiles)
    /\ \E self \in {threads[t].target} :
       \E r \in {ParseFileResult(parsers[self].classes, parsers[self].parsed_files,
                                 ProjectFiles[threads[t].i],
                                 ProjectDisk[ProjectFiles[threads[t].i]])} :
          /\ parsers' = [parsers EXCEPT ![self] =
                             [classes |-> r.classes, parsed_files |-> r.parsed_files]]
          /\ threads' = [threads EXCEPT ![t].i = @ + 1,
                                        ![t].count = CountIf(@, r.ret)]
    /\ UNCHANGED <<app_parser, app_generator, after_queue, class_vars, ui_exit, ui_rels,
                   rvars, pvars, avars>>

\* do_parse, lines 400-403: parse_directory has returned;
\* `self.generator = PlantUMLGenerator(self.parser)` reads self.parser once
\* more, and _update_class_list is handed to root.after
DoParseInstall(t) ==
    /\ threads[t].pc = "files"
    /\ threads[t].i > Len(ProjectFiles)
    /\ app_generator' = app_parser
    /\ after_queue' = Append(after_queue, threads[t].count)
    /\ threads' = [threads EXCEPT ![t].pc = "done"]
    /\ UNCHANGED <<app_parser, parsers, class_vars, ui_exit, ui_rels, rvars, pvars, avars>>

\* _update_class_list, run by the main loop: the checkboxes and the values of
\* the start-class box are the class names of self.parser as it is now
UpdateClassList ==
    /\ after_queue # <<>>
    /\ after_queue' = Tail(after_queue)
    /\ class_vars' = Keys(parsers[app_parser].classes)
    /\ UNCHANGED <<app_parser, app_generator, parsers, threads, ui_exit, ui_rels,
                   rvars, pvars, avars>>

\* analyze_from_class(start, md) with no filter, on the store d: the loop of
\* lines 312-354 run to its end from the queue q; the relationships are kept
\* as the set of their (from, to, kind), which is what the diagram shows
RECURSIVE TraverseFrom(_, _, _, _, _)
TraverseFrom(d, q, seen, keys, md) ==
    IF q = <<>> THEN [visited |-> seen, keys |-> keys]
    ELSE IF q[1][1] \in seen THEN TraverseFrom(d, Tail(q), seen, keys, md)
    ELSE IF q[1][1] \notin Keys(d)
         THEN TraverseFrom(d, Tail(q), seen \cup {q[1][1]}, keys, md)
    ELSE LET class_info == Item(d, q[1][1])
             rels   == AnalyzeClass(d, class_info,
                                    CHOOSE o \in DepOrders(d, class_info) : TRUE)
             now    == seen \cup {q[1][1]}
             within == WithinDepth(q[1][2], md)
         IN  TraverseFrom(d,
                 Tail(q) \o (IF within THEN EdgeEnqueues(rels, 1, now, q[1][2]) ELSE <<>>)
                         \o (IF within
                             THEN NameEnqueues(FindChildClasses(d, q[1][1]), now, q[1][2])
                                  \o NameEnqueues(FindClassesUsing(d, q[1][1], NoFilter),
                                                  now, q[1][2])
                             ELSE <<>>),
                 now, keys \cup {Key(rels[k]) : k \in 1..Len(rels)}, md)

Traverse(d, start, md) ==
    IF ~StartInStore(d, start) THEN [visited |-> {}, keys |-> {}]
    ELSE TraverseFrom(d, << <<start, 0>> >>, {}, {}, md)

\* _generate_diagram, with every relationship kind ticked and `start` as the
\* text of the start-class box: the start class is looked up in self.parser.classes (line 546), the traversal runs on the
\* parser the generator was made with (line 558, generate_from_class line 277)
GenerateDiagram(start, md) ==
    /\ IF app_parser = 0 \/ app_generator = 0
       THEN ui_exit' = "rejected" /\ ui_rels' = {}
       ELSE IF start = "" \/ start \notin Keys(parsers[app_parser].classes)
       THEN ui_exit' = "rejected" /\ ui_rels' = {}
       ELSE /\ ui_exit' = "diagram"
            /\ ui_rels' = Traverse(parsers[app_generator].classes, start, md).keys
    /\ UNCHANGED <<app_parser, app_generator, parsers, threads, after_queue, class_vars,
                   rvars, pvars, avars>>

\* _generate_all, with every class and every relationship kind ticked: the
\* classes are classified on RelationshipAnalyzer(self.parser) (line 622), and
\* the relationships between ticked classes are drawn
GenerateAll ==
    /\ IF app_parser = 0 \/ app_generator = 0 \/ class_vars = {}
       THEN ui_exit' = "rejected" /\ ui_rels' = {}
       ELSE \E d \in {parsers[app_parser].classes} :
            /\ ui_exit' = "all"
            /\ ui_rels' = UNION {
                   LET rels == AnalyzeClass(d, Item(d, n),
                                            CHOOSE o \in DepOrders(d, Item(d, n)) : TRUE)
                   IN  {Key(rels[k]) : k \in {j \in 1..Len(rels) :
                            rels[j].from_class \in class_vars /\ rels[j].to_class \in class_vars}}
                   : n \in class_vars \cap Keys(d)}
    /\ UNCHANGED <<app_parser, app_generator, parsers, threads, after_queue, class_vars,
                   rvars, pvars, avars>>

AppNext ==
    \/ ParseProject
    \/ \E t \in 1..Len(threads) : DoParseMake(t)
    \/ \E t \in 1..Len(threads) : DoParseCall(t)
    \/ \E t \in 1..Len(threads) : DoParseFile(t)
    \/ \E t \in 1..Len(threads) : DoParseInstall(t)
    \/ UpdateClassList
    \/ \E start \in ClassNames \cup {""}, md \in 1..MaxDepth : GenerateDiagram(start, md)
    \/ GenerateAll

SpecApp == Init /\ [][AppNext]_vars

----------------------------------------------------------------------------
(* The resolver on its own: every type expression of TypeInputs is resolved *)

TypeNames == {"Widget", "Gadget", "A"}

Quals  == {<<>>, <<"const", " ">>}
Scopes == {<<>>, <<"std", ":", ":">>}
Sigils == {<<>>, <<"*">>, <<"&">>, <<" ", "*">>}
Wraps  == {<<t>> : t \in TypeNames}
          \cup {<<"vector", "<", t, ">">> : t \in TypeNames}
          \cup {<<"map", "<", k, ",", " ", t, ">">> : k \in TypeNames, t \in TypeNames}

\* vector< ... vector<t> ... >, n templates deep
RECURSIVE Nest(_, _)
Nest(t, n) == IF n = 0 THEN <<t>> ELSE <<"vector", "<">> \o Nest(t, n - 1) \o <<">">>

NestedInputs == {Nest(t, n) : t \in TypeNames, n \in 2..MaxNesting}

\* vector<pair<a,b>> and map<k, vector<pair<a,b>>>
VectorOfPair(a, b) == <<"vector", "<", "pair", "<", a, ",", b, ">", ">">>
MapToVectorOfPair(k, a, b) == <<"map", "<", k, ",", " ">> \o VectorOfPair(a, b) \o <<">">>

PairInputs == {VectorOfPair(a, b) : a \in TypeNames, b \in TypeNames}
              \cup {MapToVectorOfPair(k, a, b) : k \in {"Widget"}, a \in TypeNames, b \in TypeNames}

TypeInputs == {q \o sc \o w \o sg : q \in Quals, sc \in Scopes, w \in Wraps, sg \in Sigils}
              \cup NestedInputs \cup PairInputs

ResolverInit ==
    /\ AppInit
    /\ rpc = "call" /\ type_str \in TypeInputs /\ resolved = None /\ is_ptr = FALSE
    /\ classes = <<>>
    /\ parsed_files = {}
    /\ ret = TRUE
    /\ dir_count = 0
    /\ parse_exit = "none"
    /\ cleared = {}
    /\ pc = "idle"
    /\ op = "none"
    /\ start_class = ""
    /\ max_depth = 0
    /\ allowed_types = NoFilter
    /\ queue = <<>>
    /\ visited = {}
    /\ relationships = <<>>
    /\ unique_rels = <<>>
    /\ class_name = ""
    /\ depth = 0
    /\ class_rels = <<>>

\* the interpreter lets the recursion of line 90 go RecursionLimit frames deep
Fits(ts) == ExtractTypeNameFrames(ts) <= RecursionLimit

\* _extract_type_name(type_str) and _is_pointer_or_reference(type_str) are called
ResolveCall ==
    /\ rpc = "call"
    /\ Fits(type_str)
    /\ resolved' = ExtractTypeName(type_str)
    /\ is_ptr' = IsPointerOrReference(type_str)
    /\ rpc' = "return"
    /\ UNCHANGED <<type_str, pvars, avars, uvars>>

\* _extract_type_name(type_str) recurses deeper than the interpreter allows:
\* the innermost call raises RecursionError, no frame of the function catches
\* it, and the caller gets the exception in place of a value
ResolveRaises ==
    /\ rpc = "call"
    /\ ~Fits(type_str)
    /\ rpc' = "raise"
    /\ UNCHANGED <<type_str, resolved, is_ptr, pvars, avars, uvars>>

ResolverNext == ResolveCall \/ ResolveRaises

SpecResolver == ResolverInit /\ [][ResolverNext]_vars

----------------------------------------------------------------------------
(* Claims *)

\* C1: for every type name T, resolve("const std::vector<T>&") returns T and
\* resolve("T*") returns T.
C1_ResolvesToTemplateArgument ==
    rpc = "return" =>
        \A t \in TypeNames :
            /\ type_str = <<"const", " ", "std", ":", ":", "vector", "<", t, ">", "&">> => resolved = t
            /\ type_str = <<t, "*">> => resolved = t

\* C2: the list returned by analyze_from_class and by analyze_all holds no two
\* entries with the same (from, to, kind), and its entries are the first
\* occurrences of the list before deduplication, in that list's order.
FirstIndex(rels, k) ==
    CHOOSE i \in 1..Len(rels) : Key(rels[i]) = k /\ \A j \in 1..(i - 1) : Key(rels[j]) # k

C2_NoDuplicateTriples ==
    pc = "done" =>
        /\ \A i, j \in 1..Len(unique_rels) :
               i # j => Key(unique_rels[i]) # Key(unique_rels[j])
        /\ {Key(unique_rels[i]) : i \in 1..Len(unique_rels)}
               = {Key(relationships[i]) : i \in 1..Len(relationships)}
        /\ \A i \in 1..Len(unique_rels) :
               unique_rels[i] = relationships[FirstIndex(relationships, Key(unique_rels[i]))]
        /\ \A i, j \in 1..Len(unique_rels) :
               i < j => FirstIndex(relationships, Key(unique_rels[i]))
                            < FirstIndex(relationships, Key(unique_rels[j]))

\* a traversal returned, a duplicate was dropped and an entry after it was kept
C2_Witness ==
    /\ pc = "done"
    /\ op = "analyze_from_class"
    /\ Len(unique_rels) < Len(relationships)
    /\ \E i \in 1..Len(relationships) :
           /\ FirstIndex(relationships, Key(relationships[i])) < i
           /\ \E j \in (i + 1)..Len(relationships) :
                  FirstIndex(relationships, Key(relationships[j])) = j

\* C3: analyze_from_class(X, max_depth = 0, no filter) with X in the store
\* returns visited = {X} and the deduplicated edges of _analyze_class(X), and
\* nothing but the start is ever put on the queue.
C3_DepthZero ==
    ( /\ op = "analyze_from_class"
      /\ max_depth = 0
      /\ allowed_types = NoFilter
      /\ start_class \in Keys(classes) ) =>
        /\ pc = "loop" => queue = <<>> \/ queue = << <<start_class, 0>> >>
        /\ pc = "done" =>
              /\ visited = {start_class}
              /\ \E dep_order \in DepOrders(classes, Item(classes, start_class)) :
                     unique_rels = RemoveDuplicates(
                         AnalyzeClass(classes, Item(classes, start_class), dep_order))

\* such a call returned for a class that has edges to other classes of the store
C3_Witness ==
    /\ pc = "done"
    /\ op = "analyze_from_class"
    /\ max_depth = 0
    /\ allowed_types = NoFilter
    /\ start_class \in Keys(classes)
    /\ \E i \in 1..Len(unique_rels) :
           {unique_rels[i].from_class, unique_rels[i].to_class} \subseteq Keys(classes)
    /\ FindChildClasses(classes, start_class) # <<>>
    /\ FindClassesUsing(classes, start_class, NoFilter) # <<>>

\* The step of the loop that classifies: the class taken from the queue was not
\* visited and is in the store.  After it class_name' names the class and
\* class_rels' is what _analyze_class returned for it.
Classifies ==
    /\ pc = "loop"
    /\ queue # <<>>
    /\ queue[1][1] \notin visited
    /\ queue[1][1] \in Keys(classes)

\* the raw expression's last non-whitespace character is '*' or '&'
EndsInSigil(raw) ==
    \E i \in 1..Len(raw) : raw[i] \in {"*", "&"} /\ \A j \in (i + 1)..Len(raw) : raw[j] = " "

\* C4: for a known type B other than the owner, the members that resolve to B
\* yield exactly one edge owner -> B: a composition if the first such member's
\* raw type does not end in '*' or '&', an aggregation if it does; a type no
\* member resolves to gets no such edge.
MemberEdgesAsClaimed(class_info, rels) ==
    \A b \in Keys(classes) \ {class_info.name} :
        LET of_b  == {i \in 1..Len(class_info.members) :
                         ExtractTypeName(class_info.members[i].type_name) = b}
            edges == {i \in 1..Len(rels) :
                         /\ rels[i].to_class = b
                         /\ rels[i].rel_type \in {COMPOSITION, AGGREGATION}}
        IN  IF of_b = {} THEN edges = {}
            ELSE LET first == CHOOSE i \in of_b : \A j \in of_b : i <= j
                 IN  /\ Cardinality(edges) = 1
                     /\ \A i \in edges :
                            /\ rels[i].from_class = class_info.name
                            /\ rels[i].rel_type =
                                   IF EndsInSigil(class_info.members[first].type_name)
                                   THEN AGGREGATION ELSE COMPOSITION

\* C4: whenever the traversal classifies a class, the composition and
\* aggregation edges returned for it are as MemberEdgesAsClaimed states: one
\* edge per known member type, its kind decided by the first such member.
C4_MemberEdgeKind ==
    [][Classifies => MemberEdgesAsClaimed(Item(classes, queue[1][1]), class_rels')]_vars

\* a class was classified that has a value member and a later pointer member of
\* one known type, and a pointer or reference member of another
C4_Witness ==
    /\ pc = "loop"
    /\ class_name \in Keys(classes)
    /\ \E i, j \in 1..Len(class_rels) :
           /\ class_rels[i].from_class = class_name
           /\ class_rels[i].rel_type = COMPOSITION
           /\ class_rels[j].from_class = class_name
           /\ class_rels[j].rel_type = AGGREGATION
    /\ \E i, j \in 1..Len(Item(classes, class_name).members) :
           /\ i < j
           /\ ExtractTypeName(Item(classes, class_name).members[i].type_name)
                  = ExtractTypeName(Item(classes, class_name).members[j].type_name)
           /\ ~EndsInSigil(Item(classes, class_name).members[i].type_name)
           /\ EndsInSigil(Item(classes, class_name).members[j].type_name)

\* C5: the inheritance edges of _analyze_class(T) are, in order, one per base
\* expression of T that resolves to a name, from that name to T, whether or
\* not the name is a class of the store.
InheritanceEdgesAsClaimed(class_info, rels) ==
    LET inh   == SelectSeq(rels, LAMBDA r : r.rel_type = INHERITANCE)
        bases == SelectSeq(class_info.base_classes, LAMBDA b : ExtractTypeName(b) # None)
    IN  /\ Len(inh) = Len(bases)
        /\ \A i \in 1..Len(inh) :
               /\ inh[i].to_class = class_info.name
               /\ inh[i].from_class = ExtractTypeName(bases[i])

\* C5: whenever the traversal classifies a class T, its inheritance edges run
\* from each resolved base to T, as InheritanceEdgesAsClaimed states.
C5_InheritanceDirection ==
    [][Classifies => InheritanceEdgesAsClaimed(Item(classes, queue[1][1]), class_rels')]_vars

\* a class was classified whose bases are one class of the store and one name
\* that is not in the store
C5_Witness ==
    /\ pc = "loop"
    /\ class_name \in Keys(classes)
    /\ \E i, j \in 1..Len(class_rels) :
           /\ class_rels[i].rel_type = INHERITANCE
           /\ class_rels[i].to_class = class_name
           /\ class_rels[i].from_class \notin Keys(classes)
           /\ class_rels[j].rel_type = INHERITANCE
           /\ class_rels[j].to_class = class_name
           /\ class_rels[j].from_class \in Keys(classes)

\* C6: the triples analyze_from_class returns are among those analyze_all
\* returns on the same store.
KeySet(rels) == {Key(rels[i]) : i \in 1..Len(rels)}

AnalyzeAllResult(d) ==
    RemoveDuplicates(AllRelationshipsFrom(d, 1,
        [i \in 1..Len(d) |-> CHOOSE o \in DepOrders(d, d[i]) : TRUE]))

\* C6: when analyze_from_class has returned, each (from, to, kind) of its result
\* is a (from, to, kind) of analyze_all's result on the same store.
C6_SubsetOfAnalyzeAll ==
    pc = "done" /\ op = "analyze_from_class" =>
        KeySet(unique_rels) \subseteq KeySet(AnalyzeAllResult(classes))

\* a filtered traversal of a store of three classes returned some, not all, of them
C6_Witness ==
    /\ pc = "done"
    /\ op = "analyze_from_class"
    /\ Len(classes) = 3
    /\ allowed_types # NoFilter
    /\ unique_rels # <<>>
    /\ KeySet(unique_rels) # KeySet(AnalyzeAllResult(classes))

\* C7: once parse_file(p) has succeeded, every later parse_file(p) before
\* clear() returns True and leaves classes and parsed_files as they are,
\* whatever was parsed in between and whatever the file holds by then.
\*   - a parse_file(p) that returns True leaves p's path in parsed_files,
\*   - a path in parsed_files stays there until clear() runs,
\*   - parse_file(p) on a path in parsed_files returns True, changes nothing.
C7_ReparseIsNoOp ==
    [][\A file_path \in PathArgs :
          /\ ParseFile(file_path) /\ ret' = TRUE => Resolve(file_path) \in parsed_files'
          /\ Resolve(file_path) \in parsed_files /\ ~Clear => Resolve(file_path) \in parsed_files'
          /\ Resolve(file_path) \in parsed_files /\ ParseFile(file_path) =>
                 /\ ret' = TRUE
                 /\ classes' = classes
                 /\ parsed_files' = parsed_files
      ]_vars

\* both files were parsed, then parse_file was called again and returned early
C7_Witness ==
    /\ parsed_files = {Resolve("a.h"), Resolve("b.h")}
    /\ parse_exit = "skip"
    /\ ret = TRUE
    /\ Len(classes) >= 2

\* C8: clear() leaves the store as it is at the start (no classes, no parsed
\* paths, get_class finds nothing), and the next parse_file of a path that had
\* been parsed before clear() reads the file and stores its classes again.
C8_ClearResets ==
    [][/\ Clear =>
            /\ classes' = <<>>
            /\ parsed_files' = {}
            /\ \A n \in StartNames : GetClass(classes', n) = <<>>
       /\ \A file_path \in PathArgs :
            ( /\ Resolve(file_path) \in cleared
              /\ Resolve(file_path) \notin parsed_files
              /\ ParseFile(file_path) ) =>
                /\ parse_exit' # "skip"
                /\ ret' = TRUE =>
                      /\ Resolve(file_path) \in parsed_files'
                      /\ \E content \in FileContents :
                             classes' = ScanDeclarations(classes, content, 1, Resolve(file_path))
                      /\ \E n \in Keys(classes') :
                             Item(classes', n).file_path = Resolve(file_path)
      ]_vars

\* a.h was parsed, clear() ran, and a.h was parsed again and yielded classes
C8_Witness ==
    /\ Resolve("a.h") \in cleared
    /\ parsed_files = {Resolve("a.h")}
    /\ parse_exit = "parsed"
    /\ classes # <<>>
    /\ \A i \in 1..Len(classes) : classes[i].file_path = Resolve("a.h")

\* C9: the while loop of analyze_from_class ends: a call that entered the loop
\* returns.
C9_TraversalTerminates == (pc = "loop") ~> (pc = "done")

\* in a store where A has a member of type B and B one of type A, the traversal
\* takes from the queue a name it has visited, and the name is queued a second time
C9_Witness ==
    /\ pc = "loop"
    /\ {"A", "B"} \subseteq Keys(classes)
    /\ \E i \in 1..Len(Item(classes, "A").members) :
           ExtractTypeName(Item(classes, "A").members[i].type_name) = "B"
    /\ \E i \in 1..Len(Item(classes, "B").members) :
           ExtractTypeName(Item(classes, "B").members[i].type_name) = "A"
    /\ queue # <<>>
    /\ queue[1][1] \in visited
    /\ \E i \in 2..Len(queue) : queue[i][1] = queue[1][1]

\* C10: after parse_file has read a file, the entry of every name the file
\* declares (with a closed body) is the record built from the last such
\* declaration alone, and the entries of the other names are as before.
LastDeclarationWins(content, file_path, old, new) ==
    \A n \in Keys(old) \cup Keys(new) \cup {content[i].name : i \in 1..Len(content)} :
        LET decls == {i \in 1..Len(content) :
                         /\ content[i].k = "decl"
                         /\ content[i].name = n
                         /\ FindMatchingBrace(content, i) # 0}
        IN  IF decls = {} THEN GetClass(new, n) = GetClass(old, n)
            ELSE LET last == CHOOSE i \in decls : \A j \in decls : j <= i
                 IN  GetClass(new, n) =
                         <<BuildClassInfo(content, last, FindMatchingBrace(content, last), file_path)>>

\* C10: every parse_file that reads a file leaves the store as
\* LastDeclarationWins states: a redeclared name holds its last declaration only.
C10_LastDeclarationWins ==
    [][\A file_path \in PathArgs, content \in FileContents :
          pc = "idle" /\ ParseFileRead(file_path, content) =>
              LastDeclarationWins(content, Resolve(file_path), classes, classes')
      ]_vars

\* A was declared in a.h; b.h, which declares A twice, was parsed after it: the
\* entry of A is the one of b.h's second declaration
C10_Witness ==
    /\ parse_exit = "parsed"
    /\ Len(classes) >= 2
    /\ classes[1].name = "A"
    /\ classes[1].file_path = Resolve("b.h")
    /\ classes[1].is_struct
    /\ classes[1].base_classes = << <<"C">> >>
    /\ Len(classes[1].members) = 1
    /\ classes[2].file_path = Resolve("a.h")

\* C11: analyze_from_class with a start name that is not in the store returns
\* an empty visited set and an empty list, whatever max_depth and filter are.
C11_UnknownStartIsEmpty ==
    ( /\ pc = "done"
      /\ op = "analyze_from_class"
      /\ start_class \notin Keys(classes) ) =>
        /\ visited = {}
        /\ unique_rels = <<>>

\* such a call returned on a store that has classes, one of which names the
\* unknown start as its base
C11_Witness ==
    /\ pc = "done"
    /\ op = "analyze_from_class"
    /\ start_class \notin Keys(classes)
    /\ max_depth = MaxDepth
    /\ \E i \in 1..Len(classes) :
           \E j \in 1..Len(classes[i].base_classes) :
               ExtractTypeName(classes[i].base_classes[j]) = start_class

\* the value of _find_matching_brace's counter after line j, counting from the
\* declaration on line i
RECURSIVE BraceCount(_, _, _)
BraceCount(content, i, j) ==
    IF j < i THEN 0 ELSE BraceCount(content, i, j - 1) + BraceDelta(content[j])

\* the declaration on line i has a closing brace that brings the counter to zero
Balanced(content, i) ==
    \E j \in (i + 1)..Len(content) : BraceCount(content, i, j) = 0

DeclLines(content) == {i \in 1..Len(content) : content[i].k = "decl"}

\* parse_file read `content` from file_path: a name all of whose declarations
\* are unbalanced keeps the entry it had (none, or another file's), and every
\* balanced declaration's name has an entry made from this file.
UnbalancedSkipped(content, file_path, old, new) ==
    \A i \in DeclLines(content) :
        IF Balanced(content, i)
        THEN /\ content[i].name \in Keys(new)
             /\ Item(new, content[i].name).file_path = file_path
        ELSE (\A j \in DeclLines(content) :
                  content[j].name = content[i].name => ~Balanced(content, j))
             => GetClass(new, content[i].name) = GetClass(old, content[i].name)

\* C12: a declaration whose brace counter never returns to zero yields no
\* record, and the balanced declarations of the same file, before it or after
\* its opening brace, are extracted.
C12_UnbalancedDeclarationSkipped ==
    [][\A file_path \in PathArgs, content \in ParserContents :
          pc = "idle" /\ ParseFileRead(file_path, content) =>
              UnbalancedSkipped(content, Resolve(file_path), classes, classes')
      ]_vars

\* a file was read in which class E is never closed and struct D, declared
\* after E's opening brace, is: D is in the store and E is not; and a file in
\* which the unclosed declaration of B follows the declarations of A
C12_Witness ==
    /\ parse_exit = "parsed"
    /\ "D" \in Keys(classes)
    /\ "E" \notin Keys(classes)
    /\ parsed_files = {Resolve("a.h"), Resolve("b.h")}
    /\ Item(classes, "D").file_path = Resolve("b.h")
    /\ Len(Item(classes, "D").members) = 2
    /\ "A" \in Keys(classes)
    /\ Item(classes, "A").is_struct
    /\ "B" \notin Keys(classes)

Visibilities == {"public", "protected", "private"}

\* the visibility the claim gives the record made from line j of the body of
\* the declaration on line i
VisibilityAt(content, i, j) ==
    LET specs == {k \in (i + 1)..(j - 1) : content[k].k = "access"}
    IN  IF specs = {}
        THEN IF content[i].keyword = "struct" THEN "public" ELSE "private"
        ELSE content[CHOOSE k \in specs : \A m \in specs : m <= k].name

\* the lines of kinds `kinds` between line i and line e, in order
BodyLines(content, i, e, kinds) ==
    SelectSeq([k \in 1..(e - i - 1) |-> i + k], LAMBDA j : content[j].k \in kinds)

\* info is the record of the declaration on line i, closed on line e: each of
\* its members and methods has the visibility of VisibilityAt
VisibilityAsClaimed(content, i, e, info) ==
    LET member_lines == BodyLines(content, i, e, {"member"})
        method_lines == BodyLines(content, i, e, {"method", "ctor", "ctor_open"})
    IN  /\ Len(info.members) = Len(member_lines)
        /\ Len(info.methods) = Len(method_lines)
        /\ \A k \in 1..Len(member_lines) :
               /\ info.members[k].access \in Visibilities
               /\ info.members[k].access = VisibilityAt(content, i, member_lines[k])
        /\ \A k \in 1..Len(method_lines) :
               /\ info.methods[k].access \in Visibilities
               /\ info.methods[k].access = VisibilityAt(content, i, method_lines[k])

\* C13: in every record parse_file stores, each member and method has the
\* visibility named by the last access-specifier line before it in the body,
\* or, if there is none, public in a struct and private in a class.
C13_VisibilityTracksSpecifier ==
    [][\A file_path \in PathArgs, content \in ParserContents :
          pc = "idle" /\ ParseFileRead(file_path, content) =>
              \A i \in DeclLines(content) :
                  ( /\ Balanced(content, i)
                    /\ \A j \in DeclLines(content) :
                           content[j].name = content[i].name /\ Balanced(content, j) => j <= i )
                  => VisibilityAsClaimed(content, i, FindMatchingBrace(content, i),
                                         Item(classes', content[i].name))
      ]_vars

\* the store holds a struct with a member before any specifier (public) and one
\* after `protected:`, and a class with methods after `public:` and a member
\* after a later `private:`
C13_Witness ==
    /\ {"C", "D"} \subseteq Keys(classes)
    /\ Item(classes, "D").is_struct
    /\ \E m, n \in 1..Len(Item(classes, "D").members) :
           /\ Item(classes, "D").members[m].access = "public"
           /\ Item(classes, "D").members[n].access = "protected"
    /\ ~Item(classes, "C").is_struct
    /\ \E m \in 1..Len(Item(classes, "C").methods) :
           Item(classes, "C").methods[m].access = "public"
    /\ \E m \in 1..Len(Item(classes, "C").members) :
           Item(classes, "C").members[m].access = "private"

\* content is one declaration, and its brace counter returns to zero
OneBalancedDeclaration(content) ==
    /\ Cardinality(DeclLines(content)) = 1
    /\ \A i \in DeclLines(content) : Balanced(content, i)

\* the step from store old to store new made exactly one record for the file,
\* named as line i names it and a struct iff line i says `struct`
OneRecordAsDeclared(content, i, file_path, old, new) ==
    /\ {n \in Keys(new) : Item(new, n).file_path = file_path} = {content[i].name}
    /\ Keys(new) = Keys(old) \cup {content[i].name}
    /\ \A n \in Keys(old) \ {content[i].name} : Item(new, n) = Item(old, n)
    /\ Item(new, content[i].name).name = content[i].name
    /\ Item(new, content[i].name).is_struct <=> content[i].keyword = "struct"

Successes(files, disk, parsed) ==
    {i \in 1..Len(files) : Resolve(files[i]) \in parsed \/ disk[files[i]].ok}

\* what the claim says of one parse_directory call
DirectoryAsClaimed(files, disk) ==
    /\ dir_count' = Cardinality(Successes(files, disk, parsed_files))
    /\ parsed_files' = parsed_files \cup {Resolve(files[i]) : i \in Successes(files, disk, parsed_files)}
    /\ \A i \in 1..Len(files) :
           disk[files[i]].ok /\ Resolve(files[i]) \notin parsed_files =>
               \A k \in DeclLines(disk[files[i]].content) :
                   Balanced(disk[files[i]].content, k) =>
                       /\ disk[files[i]].content[k].name \in Keys(classes')
                       /\ Item(classes', disk[files[i]].content[k].name).file_path
                              \in {Resolve(files[j]) : j \in i..Len(files)}

\* C15: a parse_file call whose read fails returns False and changes neither
\* the store nor the processed paths, so the path is still unprocessed; a
\* parse_directory call parses every readable file of the listing, before or
\* after an unreadable one, and returns the number of calls that returned True.
C15_ReadFailureIsLocal ==
    [][/\ \A file_path \in PathArgs :
             pc = "idle" /\ ParseFileError(file_path) =>
                 /\ ret' = FALSE
                 /\ classes' = classes
                 /\ parsed_files' = parsed_files
                 /\ Resolve(file_path) \notin parsed_files'
       /\ \A files \in DirListings, disk \in [DirPaths -> Reads] :
             ParseDirectory(files, disk) => DirectoryAsClaimed(files, disk)
      ]_vars

\* a parse_file call failed and left nothing; the parse_directory call after it
\* processed one path, whose declaration is in the store, and returned 1
C15_Witness ==
    /\ parse_exit = "directory"
    /\ ret = FALSE
    /\ cleared = {}
    /\ dir_count = 1
    /\ Cardinality(parsed_files) = 1
    /\ Keys(classes) = {"D"}

\* name is on the queue with depth d
Enqueued(q, name, d) == \E k \in 1..Len(q) : q[k] = <<name, d>>

\* the classes of the store, other than n, one of whose raw base expressions
\* resolves to n
Subclasses(d, n) ==
    {c \in Keys(d) \ {n} :
        \E j \in 1..Len(Item(d, c).base_classes) :
            ExtractTypeName(Item(d, c).base_classes[j]) = n}

\* C16: when a class is expanded below max_depth and inheritance is allowed,
\* every other class with a raw base expression resolving to it, `ns::N`
\* included, is on the queue at depth + 1 after the step, unless it was visited.
C16_SubclassesEnqueued ==
    [][( /\ Classifies
         /\ WithinDepth(queue[1][2], max_depth)
         /\ (allowed_types = NoFilter \/ INHERITANCE \in allowed_types) )
       => \A c \in Subclasses(classes, queue[1][1]) \ visited :
              Enqueued(queue', c, queue[1][2] + 1)
      ]_vars

\* the classes of the store, other than n, with a method whose return type
\* resolves to n
ReturnUsers(d, n) ==
    {c \in Keys(d) \ {n} :
        \E i \in 1..Len(Item(d, c).methods) :
            ExtractTypeName(Item(d, c).methods[i].return_type) = n}

\* C17: when a class is expanded below max_depth and dependency is allowed,
\* every other class with a method whose return type resolves to it is on the
\* queue at depth + 1 after the step, unless it was visited.
C17_ReturnTypeUsersEnqueued ==
    [][( /\ Classifies
         /\ WithinDepth(queue[1][2], max_depth)
         /\ (allowed_types = NoFilter \/ DEPENDENCY \in allowed_types) )
       => \A c \in ReturnUsers(classes, queue[1][1]) \ visited :
              Enqueued(queue', c, queue[1][2] + 1)
      ]_vars

\* classifying class u of the store yields an edge from u to n of a kind in K
HasEdgeOfKind(d, u, n, K) ==
    \E dep_order \in DepOrders(d, Item(d, u)) :
        LET rels == AnalyzeClass(d, Item(d, u), dep_order)
        IN  \E i \in 1..Len(rels) :
                /\ rels[i].from_class = u
                /\ rels[i].to_class = n
                /\ rels[i].rel_type \in K

\* C18: when a class is expanded below max_depth under a filter that allows
\* composition, aggregation or dependency, the search for its users returns a
\* class only if classifying that class yields an edge to the expanded class
\* whose kind the filter allows.
C18_UsersMatchFilter ==
    [][( /\ Classifies
         /\ WithinDepth(queue[1][2], max_depth)
         /\ allowed_types # NoFilter
         /\ allowed_types \cap {COMPOSITION, AGGREGATION, DEPENDENCY} # {} )
       => LET users == FindClassesUsing(classes, queue[1][1], allowed_types)
          IN  \A k \in 1..Len(users) :
                  /\ users[k] \in visited \/ Enqueued(queue', users[k], queue[1][2] + 1)
                  /\ HasEdgeOfKind(classes, users[k], queue[1][1], allowed_types)
      ]_vars

\* C19: when analyze_from_class was given a filter, unrecognised words only
\* included, every relationship it returns has a kind of the allowed set
\* derived from the filter.
C19_ReturnedKindsAllowed ==
    ( /\ pc = "done"
      /\ op = "analyze_from_class"
      /\ allowed_types # NoFilter )
    => \A i \in 1..Len(unique_rels) : unique_rels[i].rel_type \in allowed_types

\* C20: the list one _analyze_class call returns holds no two relationships
\* with the same (from, to, kind), inheritance included.
C20_ClassifyNoDuplicates ==
    [][Classifies =>
          \A i, j \in 1..Len(class_rels') :
              Key(class_rels'[i]) = Key(class_rels'[j]) => i = j
      ]_vars

\* the dependency edges of rels are as the claim says, for the class named owner
DependencyEdgesAsClaimed(d, owner, rels) ==
    LET deps == {i \in 1..Len(rels) : rels[i].rel_type = DEPENDENCY}
    IN  /\ \A i \in deps :
               /\ rels[i].from_class = owner
               /\ rels[i].to_class \in Keys(d) \ {owner}
               /\ \A j \in deps : rels[j].to_class = rels[i].to_class => j = i
               /\ \A j \in 1..Len(rels) :
                      rels[j].from_class = owner /\ rels[j].to_class = rels[i].to_class
                          => rels[j].rel_type \notin {COMPOSITION, AGGREGATION}

C22_DeepNestingResolvesToNone ==
    rpc # "call" /\ ExtractTypeNameFrames(type_str) > RecursionLimit =>
        rpc = "return" /\ resolved = None

\* C23: resolve("vector<pair<a,b>>") and resolve("map<k, vector<pair<a,b>>>")
\* return b: commas nested inside inner angle brackets do not split the
\* arguments, and the result carries no bracket.
C23_NestedCommasDoNotSplit ==
    rpc = "return" =>
        \A a \in TypeNames, b \in TypeNames :
            /\ type_str = VectorOfPair(a, b) => resolved = b
            /\ type_str = MapToVectorOfPair("Widget", a, b) => resolved = b

\* the segments of s between its commas at bracket depth zero, from s[i] on;
\* open is the number of '<' not yet closed and cur the segment so far
RECURSIVE SplitTopLevelFrom(_, _, _, _)
SplitTopLevelFrom(s, i, open, cur) ==
    IF i > Len(s) THEN <<cur>>
    ELSE IF s[i] = "," /\ open = 0
         THEN <<cur>> \o SplitTopLevelFrom(s, i + 1, 0, <<>>)
         ELSE SplitTopLevelFrom(s, i + 1,
                  CASE s[i] = "<" -> open + 1
                    [] s[i] = ">" -> open - 1
                    [] OTHER      -> open,
                  Append(cur, s[i]))

\* one raw base expression per base of the base list, keywords removed
BasesAsClaimed(inheritance_str) ==
    LET parts   == IF inheritance_str = <<>> THEN <<>>
                   ELSE SplitTopLevelFrom(inheritance_str, 1, 0, <<>>)
        cleaned == [i \in 1..Len(parts) |->
                       Strip(RemoveWords(parts[i], {"public", "private", "protected", "virtual"}))]
    IN  SelectSeq(cleaned, LAMBDA b : b # <<>>)

\* C24: the record of a declaration has one raw base expression for each
\* segment of its base list between commas at bracket depth zero, with the
\* access and virtual keywords removed; `: public Base<A, B>, public Other`
\* gives two.
C24_BasesSplitAtTopLevel ==
    [][\A file_path \in PathArgs, content \in ParserContents :
          pc = "idle" /\ ParseFileRead(file_path, content) =>
              \A i \in DeclLines(content) :
                  ( /\ Balanced(content, i)
                    /\ \A j \in DeclLines(content) :
                           content[j].name = content[i].name /\ Balanced(content, j) => j <= i )
                  => Item(classes', content[i].name).base_classes = BasesAsClaimed(content[i].text)
      ]_vars

\* the names of the constructors and the destructor of the type named n
SpecialNames(n) == {n, "~" \o n}

\* C25: in every stored record, a method whose name is the type's name, or '~'
\* followed by it, has an empty return type, also when its declaration starts
\* with `explicit` or `virtual`; every other method has a non-empty one.
C25_ConstructorsHaveNoReturnType ==
    \A c \in 1..Len(classes) :
        \A m \in 1..Len(classes[c].methods) :
            classes[c].methods[m].return_type = <<>>
                <=> classes[c].methods[m].name \in SpecialNames(classes[c].name)

\* the lines of the body of the declaration on line i, closed on line e, that
\* lie in no nested brace block: the counter stands at 1 when they begin
OwnLines(content, i, e) ==
    {j \in (i + 1)..(e - 1) : BraceCount(content, i, j - 1) = 1}

\* the visibility at line j, from the specifier lines among the own lines
OwnVisibilityAt(content, i, e, j) ==
    LET specs == {k \in OwnLines(content, i, e) : k < j /\ content[k].k = "access"}
    IN  IF specs = {}
        THEN IF content[i].keyword = "struct" THEN "public" ELSE "private"
        ELSE content[CHOOSE k \in specs : \A m \in specs : m <= k].name

\* info's members and methods come from the own lines alone, with the
\* visibility the own specifier lines give them
NestedBlocksIgnored(content, i, e, info) ==
    LET own          == OwnLines(content, i, e)
        member_lines == SelectSeq(BodyLines(content, i, e, {"member"}), LAMBDA j : j \in own)
        method_lines == SelectSeq(BodyLines(content, i, e, {"method", "ctor", "ctor_open"}),
                                  LAMBDA j : j \in own)
    IN  /\ Len(info.members) = Len(member_lines)
        /\ Len(info.methods) = Len(method_lines)
        /\ \A k \in 1..Len(member_lines) :
               /\ info.members[k].name = content[member_lines[k]].name
               /\ info.members[k].access = OwnVisibilityAt(content, i, e, member_lines[k])
        /\ \A k \in 1..Len(method_lines) :
               /\ info.methods[k].name = content[method_lines[k]].name
               /\ info.methods[k].access = OwnVisibilityAt(content, i, e, method_lines[k])

\* C26: the lines inside a nested brace block of a type's body, the body of an
\* inline constructor or of a nested struct, give the type's record no member
\* and no method and leave its running visibility as it was; the signature
\* line of the inline function is recorded.
C26_NestedBlocksIgnored ==
    [][\A file_path \in PathArgs, content \in ParserContents :
          pc = "idle" /\ ParseFileRead(file_path, content) =>
              \A i \in DeclLines(content) :
                  ( /\ Balanced(content, i)
                    /\ \A j \in DeclLines(content) :
                           content[j].name = content[i].name /\ Balanced(content, j) => j <= i )
                  => NestedBlocksIgnored(content, i, FindMatchingBrace(content, i),
                                         Item(classes', content[i].name))
      ]_vars

\* a do_parse thread is inside parse_directory on parser instance p and has
\* files of the listing still to parse
BeingPopulated(p) ==
    \E t \in 1..Len(threads) :
        /\ threads[t].pc = "files"
        /\ threads[t].target = p
        /\ threads[t].i <= Len(ProjectFiles)

\* C27: a Generate All or Generate Diagram handler that is not rejected
\* classifies or traverses a parser instance that no parse thread is
\* populating at that moment.
C27_NoReadDuringParse ==
    [][/\ GenerateAll /\ ui_exit' = "all" => ~BeingPopulated(app_parser)
       /\ \A start \in ClassNames, md \in 1..MaxDepth :
             GenerateDiagram(start, md) /\ ui_exit' = "diagram"
                 => ~BeingPopulated(app_generator)
      ]_vars

\* C28: no two do_parse threads are inside parse_directory on the same parser
\* instance, and the parser instance of the installed generator is the target
\* of one parse run only.
C28_SingleWriter ==
    /\ \A t, u \in 1..Len(threads) :
           t # u /\ threads[t].pc = "files" /\ threads[u].pc = "files"
               => threads[t].target # threads[u].target
    /\ app_generator # 0 =>
           Cardinality({t \in 1..Len(threads) : threads[t].target = app_generator}) <= 1

\* ---------------------------------------------------------------------------
\* C29: depth bound of the traversal

\* the names the loop body enqueues when n is expanded (lines 326-354): both
\* ends of the surviving edges, the subclasses and the users
Neighbours(d, allowed, n) ==
    IF n \notin Keys(d) THEN {}
    ELSE With(Item(d, n), LAMBDA class_info :
         With(AnalyzeClass(d, class_info, CHOOSE o \in DepOrders(d, class_info) : TRUE), LAMBDA rels :
         With(SelectSeq(rels, LAMBDA r : Survives(allowed, r)), LAMBDA kept :
              {kept[i].to_class : i \in 1..Len(kept)}
              \cup {kept[i].from_class : i \in 1..Len(kept)}
              \cup (IF allowed = NoFilter \/ INHERITANCE \in allowed
                    THEN {FindChildClasses(d, n)[i] : i \in 1..Len(FindChildClasses(d, n))}
                    ELSE {})
              \cup (IF allowed = NoFilter \/ allowed \cap {COMPOSITION, AGGREGATION, DEPENDENCY} # {}
                    THEN {FindClassesUsing(d, n, allowed)[i] :
                              i \in 1..Len(FindClassesUsing(d, n, allowed))}
                    ELSE {}))))

\* the names at most k hops from start in that relation
RECURSIVE WithinHops(_, _, _, _)
WithinHops(d, allowed, start, k) ==
    IF k = 0 THEN {start}
    ELSE With(WithinHops(d, allowed, start, k - 1), LAMBDA prev :
              prev \cup UNION {Neighbours(d, allowed, n) : n \in prev})

\* k is the shortest distance of n from start
DistanceIs(d, allowed, start, n, k) ==
    /\ n \in WithinHops(d, allowed, start, k)
    /\ k > 0 => n \notin WithinHops(d, allowed, start, k - 1)

\* the queue holds its entries in non-decreasing depth, none below `low`
NonDecreasing(q, low) ==
    /\ \A i \in 1..Len(q) : q[i][2] >= low
    /\ \A i, j \in 1..Len(q) : i < j => q[i][2] <= q[j][2]

\* C29: a name enters visited when it is dequeued for the first time; its depth
\* then is at most max_depth and equals its shortest distance from start_class
\* in the relation the traversal expands, and the entries still queued are in
\* non-decreasing depth order, none shallower than the one dequeued.
C29_DepthIsShortestDistance ==
    [][LoopStep =>
          /\ queue[1][1] \notin visited =>
                 /\ queue[1][2] <= max_depth
                 /\ DistanceIs(classes, allowed_types, start_class, queue[1][1], queue[1][2])
          /\ NonDecreasing(queue', queue[1][2])
      ]_vars

\* a finished traversal that visited a name two hops from the start
C29_Witness ==
    /\ pc = "done" /\ op = "analyze_from_class"
    /\ \E n \in visited : DistanceIs(classes, allowed_types, start_class, n, 2)

\* ---------------------------------------------------------------------------
\* C30: the visited names and the store

\* C30: when the traversal returns, every visited name is a key of the store.
C30_VisitedAreStoreKeys ==
    [][LoopExit => visited \subseteq Keys(classes)]_vars

====
